---- MODULE Spec2Model ----
(***************************************************************************)
(* Model of app/services/material.py: API key rotation (get_api_key), the  *)
(* four provider search adapters, the asset cache (save_video, save_image) *)
(* and the material orchestrator (download_videos, download_images).       *)
(*                                                                         *)
(* The empty Python string returned as "no path" is the empty tuple        *)
(* NoPath; a path f"{save_dir}/{prefix}-{hash}.{ext}" is the tuple         *)
(* <<save_dir, prefix, hash, ext>>.  A URL is a sequence of characters.    *)
(* Durations are whole seconds.                                            *)
(***************************************************************************)
EXTENDS Integers, Sequences, FiniteSets, TLC

VARIABLES app, requested_count, files, dirs, pc, args, terms_left, items_left,
          valid_items, valid_urls, found_duration, material_directory,
          sel_i, paths, total_duration, error, attempts, too_short, call,
          prev_call, saves, key_result, calls

vars == <<app, requested_count, files, dirs, pc, args, terms_left, items_left,
          valid_items, valid_urls, found_duration, material_directory,
          sel_i, paths, total_duration, error, attempts, too_short, call,
          prev_call, saves, key_result, calls>>

run_vars == <<pc, args, terms_left, items_left, valid_items, valid_urls,
              found_duration, material_directory, sel_i, paths,
              total_duration, error, attempts, too_short>>

(***************************************************************************)
(* Bounds of the model.                                                    *)
(***************************************************************************)
MaxTerms == 2
MaxHits == 2
MaxCalls == 3

(***************************************************************************)
(* Small helpers on sequences.                                             *)
(***************************************************************************)
Min(a, b) == IF a < b THEN a ELSE b

Range(s) == {s[i] : i \in 1..Len(s)}

SeqsUpTo(S, n) == UNION {[1..k -> S] : k \in 0..n}

IsPrefix(s, t) == Len(s) <= Len(t) /\ \A i \in 1..Len(s) : s[i] = t[i]

NoDuplicates(s) == \A i, j \in 1..Len(s) : i # j => s[i] # s[j]

Shuffles(s) ==
    {t \in [1..Len(s) -> Range(s)] :
        \E f \in [1..Len(s) -> 1..Len(s)] :
            /\ \A i, j \in 1..Len(s) : i # j => f[i] # f[j]
            /\ \A i \in 1..Len(s) : t[i] = s[f[i]]}

NoPath == <<>>

(***************************************************************************)
(* Configuration values.  config.app.get(cfg_key) is absent (None), a      *)
(* string or a list of strings.                                            *)
(***************************************************************************)
CfgNone == [kind |-> "none", str |-> "", list |-> <<>>]
CfgStr(s) == [kind |-> "str", str |-> s, list |-> <<>>]
CfgList(l) == [kind |-> "list", str |-> "", list |-> l]

Truthy(v) ==
    \/ v.kind = "str" /\ v.str # ""
    \/ v.kind = "list" /\ v.list # <<>>

(***************************************************************************)
(* get_api_key: result of one call from the configuration and the          *)
(* process-wide requested_count.  Python lists are 0-based, TLA+ sequences *)
(* 1-based.                                                                *)
(***************************************************************************)

\* get_api_key indexing the list before it counts the call
get_api_key_IndexFirst(cfg, count, cfg_key) ==
    LET api_keys == cfg[cfg_key] IN
    IF ~Truthy(api_keys)
    THEN [raised |-> TRUE, key |-> "", count |-> count]
    ELSE IF api_keys.kind = "str"
    THEN [raised |-> FALSE, key |-> api_keys.str, count |-> count]
    ELSE [raised |-> FALSE,
          key |-> api_keys.list[(count % Len(api_keys.list)) + 1],
          count |-> count + 1]

get_api_key(cfg, count, cfg_key) ==
    LET api_keys == cfg[cfg_key] IN
    IF ~Truthy(api_keys)
    THEN [raised |-> TRUE, key |-> "", count |-> count]
    ELSE IF api_keys.kind = "str"
    THEN [raised |-> FALSE, key |-> api_keys.str, count |-> count]
    ELSE [raised |-> FALSE,
          key |-> api_keys.list[((count + 1) % Len(api_keys.list)) + 1],
          count |-> count + 1]

(***************************************************************************)
(* Storage paths and hashing (app.utils) and the aspect table              *)
(* (app.models.schema).                                                    *)
(***************************************************************************)
storage_dir(sub_dir) == IF sub_dir = "cache_videos" THEN "/storage/cache_videos"
                        ELSE "/storage/images"

task_dir(task_id) == "/storage/tasks/t"

CharCode(c) == CASE c = "a" -> 1 [] c = "b" -> 2 [] c = "c" -> 3
                 [] c = "?" -> 4 [] OTHER -> 5

RECURSIVE md5(_)
md5(s) == IF s = <<>> THEN 0 ELSE CharCode(Head(s)) + 7 * md5(Tail(s))

to_resolution(aspect) ==
    CASE aspect = "landscape" -> [w |-> 1920, h |-> 1080]
      [] aspect = "portrait" -> [w |-> 1080, h |-> 1920]
      [] OTHER -> [w |-> 1080, h |-> 1080]

(***************************************************************************)
(* url.split("?")[0]                                                       *)
(***************************************************************************)
RECURSIVE url_without_query(_)
url_without_query(url) ==
    IF url = <<>> \/ Head(url) = "?" THEN <<>>
    ELSE <<Head(url)>> \o url_without_query(Tail(url))

(***************************************************************************)
(* The file system: files maps each existing path to its content.          *)
(* Contents are abstract byte strings: "" is the empty file, "mp4" a       *)
(* playable video, "mp4_nodur" / "mp4_nofps" videos the probe opens but    *)
(* reports with duration 0 / frame rate 0, "junk" bytes no decoder opens,  *)
(* "img" a decodable image, "img_rgba" a decodable image the JPEG encoder  *)
(* refuses, "jpg" the re-encoded image.                                    *)
(***************************************************************************)
exists(fs, p) == p \in DOMAIN fs

getsize(fs, p) == IF fs[p] = "" THEN 0 ELSE 1

write(fs, p, c) == [q \in (DOMAIN fs) \cup {p} |-> IF q = p THEN c ELSE fs[q]]

remove(fs, p) == [q \in (DOMAIN fs) \ {p} |-> fs[q]]

VideoFileClip(c) ==
    CASE c = "mp4" -> [raises |-> FALSE, duration |-> 4, fps |-> 25]
      [] c = "mp4_nodur" -> [raises |-> FALSE, duration |-> 0, fps |-> 25]
      [] c = "mp4_nofps" -> [raises |-> FALSE, duration |-> 4, fps |-> 0]
      [] OTHER -> [raises |-> TRUE, duration |-> 0, fps |-> 0]

ImageOpen(c) == c \in {"img", "img_rgba", "jpg"}

ImageSaveRaises(c) == c = "img_rgba"

(***************************************************************************)
(* What one HTTP GET of an asset can answer.                               *)
(***************************************************************************)
GetRaises == [raises |-> TRUE, status |-> 0, content |-> "", partial |-> FALSE]
GetBody(st, c, pt) == [raises |-> FALSE, status |-> st, content |-> c, partial |-> pt]

VideoGets == {GetRaises} \cup
             {GetBody(200, c, FALSE) : c \in {"", "mp4", "mp4_nodur", "mp4_nofps", "junk"}}

\* the asset answers a run of download_videos is checked against
VideoGetsInRun == VideoGets \ {GetBody(200, "mp4_nofps", FALSE)}

ImageGets == {GetRaises, GetBody(404, "junk", FALSE), GetBody(200, "junk", FALSE),
              GetBody(200, "img", FALSE), GetBody(200, "img_rgba", FALSE),
              GetBody(200, "img_rgba", TRUE)}

Outcome(fs, ds, ret, exc, n, p) ==
    [files |-> fs, dirs |-> ds, ret |-> ret, exc |-> exc, requests |-> n, path |-> p]

(***************************************************************************)
(* save_video                                                              *)
(***************************************************************************)

\* the size test of the cache check inverted
VideoCacheHit_EmptyOnly(fs, video_path) ==
    exists(fs, video_path) /\ getsize(fs, video_path) = 0

VideoCacheHit(fs, video_path) == exists(fs, video_path) /\ getsize(fs, video_path) > 0

video_path_of(video_url, save_dir_in) ==
    LET save_dir == IF save_dir_in = "" THEN storage_dir("cache_videos") ELSE save_dir_in
    IN <<save_dir, "vid", md5(url_without_query(video_url)), "mp4">>

save_video(fs, ds, video_url, save_dir_in, resp) ==
    LET video_path == video_path_of(video_url, save_dir_in)
        ds1 == ds \cup {video_path[1]}
    IN  IF VideoCacheHit(fs, video_path)
        THEN Outcome(fs, ds1, video_path, FALSE, 0, video_path)
        ELSE IF resp.raises
        THEN Outcome(write(fs, video_path, ""), ds1, NoPath, TRUE, 1, video_path)
        ELSE LET fs1 == write(fs, video_path, resp.content)
                 clip == VideoFileClip(resp.content)
             IN  IF exists(fs1, video_path) /\ getsize(fs1, video_path) > 0
                 THEN IF clip.raises
                      THEN Outcome(remove(fs1, video_path), ds1, NoPath, FALSE, 1, video_path)
                      ELSE IF clip.duration > 0 /\ clip.fps > 0
                      THEN Outcome(fs1, ds1, video_path, FALSE, 1, video_path)
                      ELSE Outcome(fs1, ds1, NoPath, FALSE, 1, video_path)
                 ELSE Outcome(fs1, ds1, NoPath, FALSE, 1, video_path)

(***************************************************************************)
(* save_image                                                              *)
(***************************************************************************)
ImageCacheHit(fs, image_path) == exists(fs, image_path) /\ getsize(fs, image_path) > 0

image_path_of(image_url, save_dir_in) ==
    LET save_dir == IF save_dir_in = "" THEN storage_dir("images") ELSE save_dir_in
    IN <<save_dir, "img", md5(url_without_query(image_url)), "jpg">>

save_image(fs, ds, image_url, save_dir_in, resp) ==
    LET image_path == image_path_of(image_url, save_dir_in)
        ds1 == ds \cup {image_path[1]}
    IN  IF ImageCacheHit(fs, image_path)
        THEN Outcome(fs, ds1, image_path, FALSE, 0, image_path)
        ELSE IF resp.raises
        THEN Outcome(fs, ds1, NoPath, FALSE, 1, image_path)
        ELSE IF resp.status = 200
        THEN IF ~ImageOpen(resp.content)
             THEN Outcome(fs, ds1, NoPath, FALSE, 1, image_path)
             ELSE IF ImageSaveRaises(resp.content)
             THEN Outcome(IF resp.partial THEN write(fs, image_path, "") ELSE fs,
                          ds1, NoPath, FALSE, 1, image_path)
             ELSE Outcome(write(fs, image_path, "jpg"), ds1, image_path, FALSE, 1, image_path)
        ELSE Outcome(fs, ds1, NoPath, FALSE, 1, image_path)

(***************************************************************************)
(* save_material                                                           *)
(***************************************************************************)
save_material(fs, ds, material_url, save_dir_in, material_type, resp) ==
    IF material_type = "video"
    THEN save_video(fs, ds, material_url, save_dir_in, resp)
    ELSE save_image(fs, ds, material_url, save_dir_in, resp)

(***************************************************************************)
(* What the providers can answer to one search.  A video entry carries its *)
(* duration and its file variants (Pexels: video_files with width, height, *)
(* link; Pixabay: videos with width and url - the same record shape is     *)
(* used for both, the field url holding link resp. url).  An entry with    *)
(* ok = FALSE lacks a field the adapter reads, so reading it raises.       *)
(***************************************************************************)
File(w, h, u) == [width |-> w, height |-> h, url |-> u]

VideoEntry(d, fs) == [ok |-> TRUE, duration |-> d, video_files |-> fs]

BadEntry == [ok |-> FALSE, duration |-> 0, video_files |-> <<>>]

VideoCatalogue ==
    { VideoEntry(3, <<File(1080, 1920, <<"a">>)>>),
      VideoEntry(3, <<File(720, 1280, <<"c">>), File(1080, 1920, <<"b">>)>>),
      VideoEntry(3, <<File(1080, 1920, <<"c">>), File(1080, 1920, <<"a">>)>>),
      VideoEntry(6, <<File(1080, 1920, <<"c">>)>>),
      VideoEntry(6, <<File(1920, 1080, <<"c">>)>>),
      BadEntry }

PhotoEntry(u, w, h) == [ok |-> TRUE, url |-> u, width |-> w, height |-> h]

BadPhoto == [ok |-> FALSE, url |-> <<>>, width |-> 0, height |-> 0]

PhotoCatalogue ==
    { PhotoEntry(<<"a">>, 1080, 1920), PhotoEntry(<<"b">>, 1920, 1080),
      PhotoEntry(<<"a", "?", "q">>, 1080, 1920), BadPhoto }

\* the GET raised or the body is no JSON / the result key is missing / a page
SearchRaises == [kind |-> "raise", hits |-> <<>>]
SearchNoKey == [kind |-> "nokey", hits |-> <<>>]
SearchPage(hits) == [kind |-> "page", hits |-> hits]

VideoSearches == {SearchRaises, SearchNoKey} \cup
                 {SearchPage(h) : h \in SeqsUpTo(VideoCatalogue, MaxHits)}

ImageSearches == {SearchRaises, SearchNoKey} \cup
                 {SearchPage(h) : h \in SeqsUpTo(PhotoCatalogue, MaxHits)}

VideoItem(prov, u, d) == [provider |-> prov, url |-> u, duration |-> d, type |-> "video"]

ImageItem(prov, u, w, h) ==
    [provider |-> prov, url |-> u, width |-> w, height |-> h, type |-> "image"]

AllOk(hits) == \A i \in 1..Len(hits) : hits[i].ok

(***************************************************************************)
(* search_videos_pexels: the loop over response["videos"].                 *)
(***************************************************************************)
RECURSIVE PexelsFirstFile(_, _, _)
PexelsFirstFile(video_files, video_width, video_height) ==
    IF video_files = <<>> THEN <<>>
    ELSE IF Head(video_files).width = video_width /\ Head(video_files).height = video_height
    THEN <<Head(video_files)>>
    ELSE PexelsFirstFile(Tail(video_files), video_width, video_height)

PexelsKeepsDuration(duration, minimum_duration) == ~(duration < minimum_duration)

RECURSIVE PexelsVideoItems(_, _, _)
PexelsVideoItems(videos, minimum_duration, res) ==
    IF videos = <<>> THEN <<>>
    ELSE LET v == Head(videos)
             f == PexelsFirstFile(v.video_files, res.w, res.h)
             rest == PexelsVideoItems(Tail(videos), minimum_duration, res)
         IN  IF ~PexelsKeepsDuration(v.duration, minimum_duration) \/ f = <<>> THEN rest
             ELSE <<VideoItem("pexels", f[1].url, v.duration)>> \o rest

\* result: raised = the configuration error of get_api_key left the adapter
Found(raised, its, count) == [raised |-> raised, items |-> its, count |-> count]

search_videos_pexels(cfg, count, search_term, minimum_duration, video_aspect, resp) ==
    LET k == get_api_key(cfg, count, "pexels_api_keys") IN
    IF k.raised THEN Found(TRUE, <<>>, k.count)
    ELSE IF resp.kind # "page" \/ ~AllOk(resp.hits) THEN Found(FALSE, <<>>, k.count)
    ELSE Found(FALSE,
               PexelsVideoItems(resp.hits, minimum_duration, to_resolution(video_aspect)),
               k.count)

(***************************************************************************)
(* search_videos_pixabay: the loop over response["hits"].                  *)
(***************************************************************************)
RECURSIVE PixabayFirstFile(_, _)
PixabayFirstFile(video_files, video_width) ==
    IF video_files = <<>> THEN <<>>
    ELSE IF Head(video_files).width >= video_width THEN <<Head(video_files)>>
    ELSE PixabayFirstFile(Tail(video_files), video_width)


\* the adapter without its minimum-duration check
PixabayKeepsDuration_Always(duration, minimum_duration) == TRUE

PixabayKeepsDuration(duration, minimum_duration) == ~(duration < minimum_duration)

RECURSIVE PixabayVideoItems(_, _, _)
PixabayVideoItems(videos, minimum_duration, res) ==
    IF videos = <<>> THEN <<>>
    ELSE LET v == Head(videos)
             f == PixabayFirstFile(v.video_files, res.w)
             rest == PixabayVideoItems(Tail(videos), minimum_duration, res)
         IN  IF ~PixabayKeepsDuration(v.duration, minimum_duration) \/ f = <<>> THEN rest
             ELSE <<VideoItem("pixabay", f[1].url, v.duration)>> \o rest

search_videos_pixabay(cfg, count, search_term, minimum_duration, video_aspect, resp) ==
    LET k == get_api_key(cfg, count, "pixabay_api_keys") IN
    IF k.raised THEN Found(TRUE, <<>>, k.count)
    ELSE IF resp.kind # "page" \/ ~AllOk(resp.hits) THEN Found(FALSE, <<>>, k.count)
    ELSE Found(FALSE,
               PixabayVideoItems(resp.hits, minimum_duration, to_resolution(video_aspect)),
               k.count)

(***************************************************************************)
(* search_images_pexels, search_images_pixabay                             *)
(***************************************************************************)
PhotoItems(prov, photos) ==
    [i \in 1..Len(photos) |->
        ImageItem(prov, photos[i].url, photos[i].width, photos[i].height)]

search_images_pexels(cfg, count, search_term, image_aspect, image_type, resp) ==
    LET k == get_api_key(cfg, count, "pexels_api_keys") IN
    IF k.raised THEN Found(TRUE, <<>>, k.count)
    ELSE IF resp.kind # "page" \/ ~AllOk(resp.hits) THEN Found(FALSE, <<>>, k.count)
    ELSE Found(FALSE, PhotoItems("pexels", resp.hits), k.count)

search_images_pixabay(cfg, count, search_term, image_aspect, image_type, resp) ==
    LET k == get_api_key(cfg, count, "pixabay_api_keys") IN
    IF k.raised THEN Found(TRUE, <<>>, k.count)
    ELSE IF resp.kind # "page" \/ ~AllOk(resp.hits) THEN Found(FALSE, <<>>, k.count)
    ELSE Found(FALSE, PhotoItems("pixabay", resp.hits), k.count)

(***************************************************************************)
(* Inputs of a run of download_materials and the configurations it runs    *)
(* under.                                                                  *)
(***************************************************************************)
DefaultImageCount == 20
MaxImageCount == 2

AppConfig(pexels, pixabay, md) ==
    [pexels_api_keys |-> pexels, pixabay_api_keys |-> pixabay, material_directory |-> md]

AppConfigs ==
    { AppConfig(CfgStr("pk"), CfgNone, "/materials"),
      AppConfig(CfgList(<<"p1", "p2">>), CfgStr(""), "task"),
      AppConfig(CfgNone, CfgStr("xk"), "/missing"),
      AppConfig(CfgList(<<>>), CfgList(<<"x1", "x2">>), "") }

KeyValues == {CfgNone, CfgStr(""), CfgStr("k"), CfgList(<<>>), CfgList(<<"k1">>),
              CfgList(<<"k1", "k2">>), CfgList(<<"k1", "k2", "k3">>)}

AudioDurations == {0, 3, 7}
MaxClipDurations == {3, 5}
ImageCounts == (0..MaxImageCount) \cup {DefaultImageCount}
Terms == {"money"}

\* no term at all, or MaxTerms of them (a term whose search finds nothing
\* leaves the run as a shorter list would)
SearchTermLists == {<<>>} \cup [1..MaxTerms -> Terms]

RunArgs(mt, st, src, asp, mode, ad, mcd, ic) ==
    [material_type |-> mt, search_terms |-> st, source |-> src, material_aspect |-> asp,
     video_contact_mode |-> mode, audio_duration |-> ad, max_clip_duration |-> mcd,
     image_count |-> ic, image_type |-> "all"]

VideoRuns ==
    {RunArgs("video", st, src, asp, mode, ad, mcd, DefaultImageCount) :
        st \in SearchTermLists, src \in {"pexels", "pixabay"},
        asp \in {"portrait", "landscape"}, mode \in {"random", "sequential"},
        ad \in AudioDurations, mcd \in MaxClipDurations}

ImageRuns ==
    {RunArgs("image", st, src, "portrait", "random", 0, 5, ic) :
        st \in SearchTermLists, src \in {"pexels", "pixabay"}, ic \in ImageCounts}

NoArgs == RunArgs("none", <<>>, "pexels", "portrait", "random", 0, 5, DefaultImageCount)

NoCall == [fn |-> "none", url |-> <<>>, dir |-> "", path |-> NoPath,
           before |-> "absent", written |-> "none", after |-> "absent", ret |-> NoPath,
           exc |-> FALSE, requests |-> 0]

\* of the call before the last one: what it was asked, what it found and
\* what it returned
Digest(c) == [fn |-> c.fn, url |-> c.url, dir |-> c.dir, before |-> c.before, ret |-> c.ret]

NoKeyResult == [cfg_key |-> "none", raised |-> FALSE, key |-> "", before |-> 0]

InitProcess ==
    /\ requested_count = 0
    /\ files = <<>>
    /\ dirs = {"/materials"}
    /\ call = NoCall
    /\ prev_call = Digest(NoCall)
    /\ saves = 0
    /\ key_result = NoKeyResult
    /\ calls = 0

InitLocals ==
    /\ items_left = <<>>
    /\ valid_items = <<>>
    /\ valid_urls = <<>>
    /\ found_duration = 0
    /\ sel_i = 0
    /\ paths = <<>>
    /\ total_duration = 0
    /\ error = "none"
    /\ attempts = <<>>
    /\ too_short = {}

Init ==
    /\ InitProcess
    /\ InitLocals
    /\ app \in AppConfigs
    /\ args \in VideoRuns \cup ImageRuns
    /\ terms_left = args.search_terms
    /\ material_directory = ""
    /\ pc = "download_materials"

(***************************************************************************)
(* download_materials: dispatch on material_type.                          *)
(***************************************************************************)
DownloadMaterials ==
    /\ pc = "download_materials"
    /\ pc' = IF args.material_type = "video" THEN "v_search" ELSE "i_search"
    /\ UNCHANGED <<app, requested_count, files, dirs, args, terms_left, items_left,
                   valid_items, valid_urls, found_duration, material_directory,
                   sel_i, paths, total_duration, error, attempts, too_short,
                   call, prev_call, saves, key_result, calls>>

(***************************************************************************)
(* The dedup step of both search loops:                                    *)
(*   if item.url not in valid_urls: append item, append item.url           *)
(***************************************************************************)

\* the dedup step without its membership test
DedupItems_NoCheck(its, urls, item) == Append(its, item)

DedupItems(its, urls, item) ==
    IF item.url \notin Range(urls) THEN Append(its, item) ELSE its

DedupUrls(its, urls, item) ==
    IF item.url \notin Range(urls) THEN Append(urls, item.url) ELSE urls

\* material_directory as resolved from the configuration
ResolveDirectory(cfg, ds, task_id) ==
    LET md == cfg.material_directory IN
    IF md = "task" THEN task_dir(task_id)
    ELSE IF md # "" /\ md \notin ds THEN ""
    ELSE md

(***************************************************************************)
(* download_videos                                                         *)
(***************************************************************************)
SearchVideos(cfg, count, minimum_duration, resp) ==
    IF args.source = "pixabay"
    THEN search_videos_pixabay(cfg, count, Head(terms_left), minimum_duration,
                               args.material_aspect, resp)
    ELSE search_videos_pexels(cfg, count, Head(terms_left), minimum_duration,
                              args.material_aspect, resp)

\* one iteration of `for search_term in search_terms`, up to the inner loop
VSearch ==
    /\ pc = "v_search"
    /\ terms_left # <<>>
    /\ \E resp \in VideoSearches :
          LET r == SearchVideos(app, requested_count, args.max_clip_duration, resp)
              \* history: what the adapter would have kept with no minimum
              \* duration; too_short collects what the duration check dropped
              any == SearchVideos(app, requested_count, 0, resp)
          IN
          /\ requested_count' = r.count
          /\ calls' = calls + 1
          /\ IF r.raised
             THEN /\ pc' = "raised"
                  /\ error' = "ValueError: api keys not set"
                  /\ UNCHANGED <<items_left, terms_left, too_short>>
             ELSE /\ pc' = "v_dedup"
                  /\ items_left' = r.items
                  /\ terms_left' = Tail(terms_left)
                  /\ too_short' = too_short \cup (Range(any.items) \ Range(r.items))
                  /\ UNCHANGED error
    /\ UNCHANGED <<app, files, dirs, args, valid_items, valid_urls, found_duration,
                   material_directory, sel_i, paths, total_duration, attempts, call,
                   prev_call, saves, key_result>>

\* one iteration of `for item in video_items`
VDedup ==
    /\ pc = "v_dedup"
    /\ items_left # <<>>
    /\ LET item == Head(items_left) IN
          /\ valid_items' = DedupItems(valid_items, valid_urls, item)
          /\ valid_urls' = DedupUrls(valid_items, valid_urls, item)
          /\ found_duration' = IF item.url \notin Range(valid_urls)
                               THEN found_duration + item.duration ELSE found_duration
    /\ items_left' = Tail(items_left)
    /\ UNCHANGED <<app, requested_count, files, dirs, pc, args, terms_left,
                   material_directory, sel_i, paths, total_duration, error, attempts,
                   too_short, call, prev_call, saves, key_result, calls>>

VTermDone ==
    /\ pc = "v_dedup"
    /\ items_left = <<>>
    /\ pc' = "v_search"
    /\ UNCHANGED <<app, requested_count, files, dirs, args, terms_left, items_left,
                   valid_items, valid_urls, found_duration, material_directory,
                   sel_i, paths, total_duration, error, attempts, too_short,
                   call, prev_call, saves, key_result, calls>>

\* after the search loop: resolve the directory, shuffle in random mode
VSelect ==
    /\ pc = "v_search"
    /\ terms_left = <<>>
    /\ material_directory' = ResolveDirectory(app, dirs, "t")
    /\ valid_items' \in (IF args.video_contact_mode = "random"
                         THEN Shuffles(valid_items) ELSE {valid_items})
    /\ total_duration' = 0
    /\ pc' = "v_download"
    /\ UNCHANGED <<app, requested_count, files, dirs, args, terms_left, items_left,
                   valid_urls, found_duration, sel_i, paths, error, attempts, too_short,
                   call, prev_call, saves, key_result, calls>>

ClipSeconds(max_clip_duration, duration) == Min(max_clip_duration, duration)


\* the budget test with >= for >, and with the comparison turned round
BudgetExceeded_NonStrict(total, audio_duration) == total >= audio_duration

BudgetExceeded_Reversed(total, audio_duration) == total < audio_duration

\* if total_duration > audio_duration: break
BudgetExceeded(total, audio_duration) == total > audio_duration

\* the download loop without its try/except
CatchSave_Uncaught(out) == [raised |-> out.exc, error |-> "RequestException"]

\* try: ... except Exception around save_material: whatever save_material
\* raises is logged and the loop goes on
CatchSave(out) == [raised |-> FALSE, error |-> "none"]

\* if saved_video_path: / if saved_image_path:
Materialized(out) == ~out.exc /\ out.ret # NoPath

\* one iteration of `for item in valid_video_items`
VDownload ==
    /\ pc = "v_download"
    /\ sel_i < Len(valid_items)
    /\ LET item == valid_items[sel_i + 1] IN
       \E resp \in VideoGetsInRun :
          LET out == save_material(files, dirs, item.url, material_directory, item.type, resp)
              seconds == ClipSeconds(args.max_clip_duration, item.duration)
          IN  /\ files' = out.files
              /\ dirs' = out.dirs
              /\ saves' = saves + 1
              /\ attempts' = Append(attempts, [i |-> sel_i + 1, ok |-> Materialized(out), raised |-> out.exc])
              /\ sel_i' = sel_i + 1
              /\ IF CatchSave(out).raised
                 THEN /\ pc' = "raised"
                      /\ error' = CatchSave(out).error
                      /\ UNCHANGED <<paths, total_duration>>
                 ELSE IF Materialized(out)
                 THEN /\ paths' = Append(paths, out.ret)
                      /\ total_duration' = total_duration + seconds
                      /\ pc' = IF BudgetExceeded(total_duration + seconds, args.audio_duration)
                               THEN "done" ELSE "v_download"
                      /\ UNCHANGED error
                 ELSE UNCHANGED <<paths, total_duration, pc, error>>
    /\ UNCHANGED <<app, requested_count, args, terms_left, items_left, valid_items,
                   valid_urls, found_duration, material_directory, too_short, call,
                   prev_call, key_result, calls>>

VExhausted ==
    /\ pc = "v_download"
    /\ sel_i = Len(valid_items)
    /\ pc' = "done"
    /\ UNCHANGED <<app, requested_count, files, dirs, args, terms_left, items_left,
                   valid_items, valid_urls, found_duration, material_directory,
                   sel_i, paths, total_duration, error, attempts, too_short,
                   call, prev_call, saves, key_result, calls>>

(***************************************************************************)
(* download_images                                                         *)
(***************************************************************************)
SearchImages(cfg, count, resp) ==
    IF args.source = "pixabay"
    THEN search_images_pixabay(cfg, count, Head(terms_left), args.material_aspect,
                               args.image_type, resp)
    ELSE search_images_pexels(cfg, count, Head(terms_left), args.material_aspect,
                              args.image_type, resp)

ISearch ==
    /\ pc = "i_search"
    /\ terms_left # <<>>
    /\ \E resp \in ImageSearches :
          LET r == SearchImages(app, requested_count, resp) IN
          /\ requested_count' = r.count
          /\ calls' = calls + 1
          /\ IF r.raised
             THEN /\ pc' = "raised"
                  /\ error' = "ValueError: api keys not set"
                  /\ UNCHANGED <<items_left, terms_left>>
             ELSE /\ pc' = "i_dedup"
                  /\ items_left' = r.items
                  /\ terms_left' = Tail(terms_left)
                  /\ UNCHANGED error
    /\ UNCHANGED too_short
    /\ UNCHANGED <<app, files, dirs, args, valid_items, valid_urls, found_duration,
                   material_directory, sel_i, paths, total_duration, attempts, call,
                   prev_call, saves, key_result>>

IDedup ==
    /\ pc = "i_dedup"
    /\ items_left # <<>>
    /\ LET item == Head(items_left) IN
          /\ valid_items' = DedupItems(valid_items, valid_urls, item)
          /\ valid_urls' = DedupUrls(valid_items, valid_urls, item)
    /\ items_left' = Tail(items_left)
    /\ UNCHANGED <<app, requested_count, files, dirs, pc, args, terms_left,
                   found_duration, material_directory, sel_i, paths, total_duration,
                   error, attempts, too_short, call, prev_call, saves, key_result, calls>>

ITermDone ==
    /\ pc = "i_dedup"
    /\ items_left = <<>>
    /\ pc' = "i_search"
    /\ UNCHANGED <<app, requested_count, files, dirs, args, terms_left, items_left,
                   valid_items, valid_urls, found_duration, material_directory,
                   sel_i, paths, total_duration, error, attempts, too_short,
                   call, prev_call, saves, key_result, calls>>

ISelect ==
    /\ pc = "i_search"
    /\ terms_left = <<>>
    /\ material_directory' = ResolveDirectory(app, dirs, "t")
    /\ valid_items' \in Shuffles(valid_items)
    /\ pc' = "i_download"
    /\ UNCHANGED <<app, requested_count, files, dirs, args, terms_left, items_left,
                   valid_urls, found_duration, sel_i, paths, total_duration, error,
                   attempts, too_short, call, prev_call, saves, key_result, calls>>

\* count = min(image_count, len(valid_image_items))

\* the image loop running over every candidate
ImageLimit_NoLimit(image_count, its) == Len(its)

ImageLimit(image_count, its) == Min(image_count, Len(its))

\* one iteration of `for i in range(count)`
IDownload ==
    /\ pc = "i_download"
    /\ sel_i < ImageLimit(args.image_count, valid_items)
    /\ LET item == valid_items[sel_i + 1] IN
       \E resp \in ImageGets :
          LET out == save_material(files, dirs, item.url, material_directory, item.type, resp)
          IN  /\ files' = out.files
              /\ dirs' = out.dirs
              /\ saves' = saves + 1
              /\ attempts' = Append(attempts, [i |-> sel_i + 1, ok |-> Materialized(out), raised |-> out.exc])
              /\ sel_i' = sel_i + 1
              /\ IF CatchSave(out).raised
                 THEN /\ pc' = "raised"
                      /\ error' = CatchSave(out).error
                      /\ UNCHANGED paths
                 ELSE /\ paths' = IF Materialized(out) THEN Append(paths, out.ret) ELSE paths
                      /\ UNCHANGED <<pc, error>>
    /\ UNCHANGED <<app, requested_count, args, terms_left, items_left, valid_items,
                   valid_urls, found_duration, material_directory, total_duration,
                   too_short, call, prev_call, key_result, calls>>

IExhausted ==
    /\ pc = "i_download"
    /\ ~(sel_i < ImageLimit(args.image_count, valid_items))
    /\ pc' = "done"
    /\ UNCHANGED <<app, requested_count, files, dirs, args, terms_left, items_left,
                   valid_items, valid_urls, found_duration, material_directory,
                   sel_i, paths, total_duration, error, attempts, too_short,
                   call, prev_call, saves, key_result, calls>>

Next ==
    \/ DownloadMaterials
    \/ VSearch \/ VDedup \/ VTermDone \/ VSelect \/ VDownload \/ VExhausted
    \/ ISearch \/ IDedup \/ ITermDone \/ ISelect \/ IDownload \/ IExhausted

Spec == Init /\ [][Next]_vars

(***************************************************************************)
(* Direct calls of get_api_key, for the rotation alone.                    *)
(***************************************************************************)
CfgKeys == {"pexels_api_keys", "pixabay_api_keys"}

InitKey ==
    /\ InitProcess
    /\ InitLocals
    /\ app \in {AppConfig(p, x, "") : p \in KeyValues, x \in KeyValues}
    /\ args = NoArgs
    /\ terms_left = <<>>
    /\ material_directory = ""
    /\ pc = "idle"

GetApiKey(cfg_key) ==
    /\ pc = "idle"
    /\ calls < MaxCalls
    /\ LET r == get_api_key(app, requested_count, cfg_key) IN
          /\ requested_count' = r.count
          /\ key_result' = [cfg_key |-> cfg_key, raised |-> r.raised, key |-> r.key,
                            before |-> requested_count]
    /\ calls' = calls + 1
    /\ UNCHANGED <<app, files, dirs, call, prev_call, saves>>
    /\ UNCHANGED run_vars

NextKey == \E cfg_key \in CfgKeys : GetApiKey(cfg_key)

SpecKey == InitKey /\ [][NextKey]_vars

(***************************************************************************)
(* Direct calls of save_video and save_image, for the cache alone.  The     *)
(* caller passes the directory it resolved, material_directory, as         *)
(* save_dir, as the download loops do.                                     *)
(***************************************************************************)
CacheURLs == {<<"a">>, <<"a", "?", "q">>, <<"b">>}

SaveDirs == {"", "/materials"}

InitCache ==
    /\ InitProcess
    /\ InitLocals
    /\ app = AppConfig(CfgNone, CfgNone, "")
    /\ args = NoArgs
    /\ terms_left = <<>>
    /\ material_directory \in SaveDirs
    /\ pc = "idle"

ContentAt(fs, p) == IF exists(fs, p) THEN fs[p] ELSE "absent"

\* written: the response bytes the call wrote to the path as they came
\* (save_video only; save_image writes what it re-encoded)
CallRecord(fn, url, dir, resp, out) ==
    [fn |-> fn, url |-> url, dir |-> dir, path |-> out.path,
     before |-> ContentAt(files, out.path),
     written |-> IF fn = "save_video" /\ out.requests > 0 /\ ~resp.raises
                 THEN resp.content ELSE "none",
     after |-> ContentAt(out.files, out.path),
     ret |-> out.ret, exc |-> out.exc, requests |-> out.requests]

SaveVideo(video_url, save_dir, resp) ==
    /\ pc = "idle"
    /\ saves < MaxCalls
    /\ LET out == save_video(files, dirs, video_url, save_dir, resp) IN
          /\ files' = out.files
          /\ dirs' = out.dirs
          /\ call' = CallRecord("save_video", video_url, save_dir, resp, out)
    /\ prev_call' = Digest(call)
    /\ saves' = saves + 1
    /\ UNCHANGED <<app, requested_count, key_result, calls>>
    /\ UNCHANGED run_vars

SaveImage(image_url, save_dir, resp) ==
    /\ pc = "idle"
    /\ saves < MaxCalls
    /\ LET out == save_image(files, dirs, image_url, save_dir, resp) IN
          /\ files' = out.files
          /\ dirs' = out.dirs
          /\ call' = CallRecord("save_image", image_url, save_dir, resp, out)
    /\ prev_call' = Digest(call)
    /\ saves' = saves + 1
    /\ UNCHANGED <<app, requested_count, key_result, calls>>
    /\ UNCHANGED run_vars

NextCache ==
    \/ \E u \in CacheURLs, resp \in VideoGets : SaveVideo(u, material_directory, resp)
    \/ \E u \in CacheURLs, resp \in ImageGets : SaveImage(u, material_directory, resp)

SpecCache == InitCache /\ [][NextCache]_vars

(***************************************************************************)
(* Properties.                                                             *)
(***************************************************************************)
\* the decode probe of save_video passes on these bytes
ProbeOk(c) ==
    LET clip == VideoFileClip(c) IN ~clip.raises /\ clip.duration > 0 /\ clip.fps > 0

NonEmptyFile(c) == c \notin {"absent", ""}

ValidBefore(c) ==
    /\ NonEmptyFile(c.before)
    /\ c.fn = "save_video" => ProbeOk(c.before)
    /\ c.fn = "save_image" => ImageOpen(c.before)

SameTarget(p, c) == p.fn = c.fn /\ p.url = c.url /\ p.dir = c.dir

IsVideoRun == args.material_type = "video"
IsImageRun == args.material_type = "image"

IsOk(a) == a.ok

OkAttempts == SelectSeq(attempts, IsOk)

AllAttemptsOk == \A j \in 1..Len(attempts) : attempts[j].ok

RECURSIVE CappedSum(_)
CappedSum(as) ==
    IF as = <<>> THEN 0
    ELSE Min(args.max_clip_duration, valid_items[Head(as).i].duration) + CappedSum(Tail(as))

ButLast(q) == SubSeq(q, 1, Len(q) - 1)

UrlsOf(its) == [i \in 1..Len(its) |-> its[i].url]

SourceKey == IF args.source = "pixabay" THEN "pixabay_api_keys" ELSE "pexels_api_keys"

ThreeShortVideos == {VideoItem(args.source, u, 3) : u \in {<<"a">>, <<"b">>, <<"c">>}}

\* C1: when save_video is called for a URL whose cache file exists with
\* size > 0 but fails the decode probe, the file is treated as a cache miss
\* (a download is made) and the path of that existing, failing file is never
\* returned.
C1_CachedVideoRevalidated ==
    (call.fn = "save_video" /\ NonEmptyFile(call.before) /\ ~ProbeOk(call.before))
        => (call.requests > 0 /\ ~(call.ret = call.path /\ call.after = call.before))

\* C2: a save_video / save_image call that finds a valid cache file makes no
\* network request, returns the cache path and leaves the file as it was; of
\* two consecutive calls for the same URL and directory, the first finding a
\* valid cache file, both return the same path and the second makes no
\* request and leaves the file unchanged.
C2_CacheHitIdempotent ==
    /\ (call.fn # "none" /\ ValidBefore(call))
          => /\ call.requests = 0
             /\ ~call.exc
             /\ call.ret = call.path
             /\ call.ret # NoPath
             /\ call.after = call.before
    /\ (call.fn # "none" /\ SameTarget(prev_call, call) /\ ValidBefore(prev_call))
          => /\ call.ret = prev_call.ret
             /\ call.requests = 0
             /\ call.after = call.before

C2_Witness ==
    /\ call.fn = "save_video"
    /\ SameTarget(prev_call, call)
    /\ ValidBefore(prev_call)
    /\ call.requests = 0
    /\ call.ret # NoPath

\* C3: in the loop of download_videos candidates are tried once each, in
\* order; the running duration is the sum of min(max_clip_duration, duration)
\* over the candidates that materialized, a failed one adding nothing and not
\* ending the loop; the loop is left only by the first success that brings
\* the running duration above audio_duration (strictly) or when the
\* candidates are exhausted.  Hence no candidate is tried once the running
\* duration exceeds audio_duration, and the capped durations of all returned
\* clips but the last sum to at most audio_duration.
C3_VideoBudgetLoop ==
    (IsVideoRun /\ pc \in {"v_download", "done"}) =>
        /\ Len(attempts) = sel_i
        /\ \A j \in 1..Len(attempts) : attempts[j].i = j
        /\ Len(paths) = Len(OkAttempts)
        /\ total_duration = CappedSum(OkAttempts)
        /\ pc = "v_download" => total_duration <= args.audio_duration
        /\ OkAttempts # <<>> => CappedSum(ButLast(OkAttempts)) <= args.audio_duration
        /\ pc = "done" =>
              \/ /\ attempts # <<>>
                 /\ attempts[Len(attempts)].ok
                 /\ total_duration > args.audio_duration
              \/ /\ sel_i = Len(valid_items)
                 /\ total_duration <= args.audio_duration

C3_Witness ==
    /\ IsVideoRun
    /\ pc = "done"
    /\ Len(paths) >= 2
    /\ total_duration > args.audio_duration
    /\ \E j, k \in 1..Len(attempts) : j < k /\ ~attempts[j].ok /\ attempts[k].ok

\* C4 as claimed: three candidates of durations 3, 3, 3 that all materialize,
\* max_clip_duration = 5 and audio_duration = 7: exactly 2 clips are kept.
C4_AsClaimed ==
    ( /\ IsVideoRun
      /\ pc = "done"
      /\ args.max_clip_duration = 5
      /\ args.audio_duration = 7
      /\ too_short = ThreeShortVideos
      /\ valid_items = <<>>
      /\ AllAttemptsOk )
        => Len(paths) = 2

\* C4 amended: with audio_duration = 7 and nothing failing to materialize,
\* three candidates of durations 3, 3, 3 give 0 clips when
\* max_clip_duration = 5 (the adapters drop them, being shorter than the
\* minimum duration) and exactly 3 clips when max_clip_duration = 3 (running
\* totals 3, 6, 9: the loop stops after the third, the first above 7).
C4_BudgetStopExample ==
    (IsVideoRun /\ pc = "done" /\ args.audio_duration = 7 /\ AllAttemptsOk) =>
        /\ ( /\ args.max_clip_duration = 5
             /\ too_short = ThreeShortVideos
             /\ valid_items = <<>> )
              => Len(paths) = 0
        /\ ( /\ args.max_clip_duration = 3
             /\ Range(valid_items) = ThreeShortVideos )
              => (Len(paths) = 3 /\ total_duration = 9)

C4_Witness ==
    /\ IsVideoRun
    /\ pc = "done"
    /\ args.audio_duration = 7
    /\ args.max_clip_duration = 3
    /\ Range(valid_items) = ThreeShortVideos
    /\ AllAttemptsOk
    /\ Len(paths) = 3

\* C5: throughout the search phase of download_videos and download_images
\* no two retained candidates have the same url and the seen urls are
\* exactly the urls of the retained candidates; a dedup step never removes
\* or replaces a retained candidate (the first occurrence of a url stays),
\* leaves the list alone when the url was seen, and leaves the url seen.
C5_SearchState ==
    (pc \in {"v_search", "v_dedup", "i_search", "i_dedup"}) =>
        /\ NoDuplicates(UrlsOf(valid_items))
        /\ valid_urls = UrlsOf(valid_items)

C5_DedupStep ==
    (pc \in {"v_dedup", "i_dedup"} /\ items_left # <<>> /\ items_left' = Tail(items_left)) =>
        /\ IsPrefix(valid_items, valid_items')
        /\ Len(valid_items') <= Len(valid_items) + 1
        /\ Head(items_left).url \in Range(valid_urls')
        /\ Head(items_left).url \in Range(valid_urls) => valid_items' = valid_items
        /\ Head(items_left).url \notin Range(valid_urls)
              => valid_items' = Append(valid_items, Head(items_left))

C5_DedupInvariant == []C5_SearchState /\ [][C5_DedupStep]_vars

C5_Witness ==
    /\ pc = "v_dedup"
    /\ terms_left = <<>>
    /\ Len(valid_items) >= 2
    /\ items_left # <<>>
    /\ \E i \in 1..Len(valid_items) :
          /\ valid_items[i].url = Head(items_left).url
          /\ valid_items[i].duration # Head(items_left).duration

\* C6: whatever the searches and the downloads answer, a run of
\* download_videos / download_images raises nothing but the configuration
\* error of get_api_key (and that only when the source's keys are not set);
\* a run that returns has gone through every search term and every
\* candidate its budget allows.
C6_GracefulDegradation ==
    /\ error \in {"none", "ValueError: api keys not set"}
    /\ (pc = "raised") <=> (error # "none")
    /\ pc = "raised" => (~Truthy(app[SourceKey]) /\ paths = <<>> /\ attempts = <<>>)
    /\ Truthy(app[SourceKey]) => pc # "raised"
    /\ pc = "done" =>
          /\ terms_left = <<>>
          /\ items_left = <<>>
          /\ Len(attempts) = sel_i
          /\ IsVideoRun => (sel_i = Len(valid_items) \/ total_duration > args.audio_duration)
          /\ IsImageRun => sel_i = Min(args.image_count, Len(valid_items))

C6_Witness ==
    /\ pc = "done"
    /\ \E j, k \in 1..Len(attempts) :
          j < k /\ attempts[j].raised /\ ~attempts[j].ok /\ attempts[k].ok

\* C7 as claimed: no keys: configuration error; a single string: that
\* string; a list: list[counter % len(list)], counter being incremented on
\* every call to get_api_key, whatever the config key.
C7_AsClaimed ==
    key_result.cfg_key # "none" =>
        LET v == app[key_result.cfg_key] IN
        /\ ~Truthy(v) => key_result.raised
        /\ (Truthy(v) /\ v.kind = "str") => (~key_result.raised /\ key_result.key = v.str)
        /\ (Truthy(v) /\ v.kind = "list")
              => /\ ~key_result.raised
                 /\ key_result.key = v.list[(calls % Len(v.list)) + 1]

\* C7 amended: no keys: configuration error, counter unchanged; a single
\* string: that string, counter unchanged; a list: the counter, one for all
\* config keys, is incremented and list[counter % len(list)] is returned (the
\* counter counts the calls that find a list, not every call).
C7_KeyRotation ==
    key_result.cfg_key # "none" =>
        LET v == app[key_result.cfg_key] IN
        /\ requested_count <= calls
        /\ ~Truthy(v) => (key_result.raised /\ requested_count = key_result.before)
        /\ (Truthy(v) /\ v.kind = "str")
              => /\ ~key_result.raised
                 /\ key_result.key = v.str
                 /\ requested_count = key_result.before
        /\ (Truthy(v) /\ v.kind = "list")
              => /\ ~key_result.raised
                 /\ requested_count = key_result.before + 1
                 /\ key_result.key = v.list[(requested_count % Len(v.list)) + 1]

C7_Witness ==
    /\ key_result.cfg_key = "pixabay_api_keys"
    /\ app.pixabay_api_keys = CfgList(<<"k1", "k2", "k3">>)
    /\ app.pexels_api_keys = CfgList(<<"k1", "k2">>)
    /\ key_result.before = 1
    /\ requested_count = 2
    /\ key_result.key = "k3"

\* C8: download_images tries exactly min(image_count, number of candidates)
\* candidates, at the distinct positions 1, 2, ... of the shuffled list;
\* it returns at most that many paths, one per candidate that materialized,
\* so exactly that many when none fails.
C8_ImageSelectionCount ==
    (IsImageRun /\ pc \in {"i_download", "done"}) =>
        LET n == Min(args.image_count, Len(valid_items)) IN
        /\ Len(attempts) <= n
        /\ pc = "done" => Len(attempts) = n
        /\ \A j \in 1..Len(attempts) : attempts[j].i = j
        /\ NoDuplicates(UrlsOf(valid_items))
        /\ Len(paths) = Len(OkAttempts)
        /\ Len(paths) <= n
        /\ (pc = "done" /\ AllAttemptsOk) => Len(paths) = n

C8_Witness ==
    /\ IsImageRun
    /\ pc = "done"
    /\ args.image_count = 2
    /\ Len(valid_items) = 3
    /\ AllAttemptsOk
    /\ Len(paths) = 2

\* C9: a save_video call that downloads (cache miss) and whose download
\* fails validation (the probe raises or reports duration <= 0 or frame
\* rate <= 0, or the file written is empty) returns the empty path and
\* leaves no non-empty file at the cache path; the next call for the same
\* URL is a cache miss again.
C9_FailedDownloadLeavesNoFile ==
    /\ (call.fn = "save_video" /\ call.requests > 0 /\ ~call.exc /\ ~ProbeOk(call.written))
          => (call.ret = NoPath /\ ~NonEmptyFile(call.after))
    /\ ( /\ call.fn = "save_video"
         /\ SameTarget(prev_call, call)
         /\ prev_call.ret = NoPath )
          => call.requests > 0

\* C10: every candidate download_videos retains lasts at least
\* max_clip_duration, each returned clip adds exactly max_clip_duration to
\* the running duration, and at most floor(audio_duration /
\* max_clip_duration) + 1 paths are returned.
C10_ReturnedVideosBound ==
    IsVideoRun =>
        /\ \A i \in 1..Len(valid_items) : valid_items[i].duration >= args.max_clip_duration
        /\ \A i \in 1..Len(items_left) : items_left[i].duration >= args.max_clip_duration
        /\ total_duration = args.max_clip_duration * Len(paths)
        /\ Len(paths) <= (args.audio_duration \div args.max_clip_duration) + 1

C10_Witness ==
    /\ IsVideoRun
    /\ pc = "done"
    /\ Len(paths) >= 2
    /\ Len(paths) = (args.audio_duration \div args.max_clip_duration) + 1
    /\ \E j \in 1..Len(attempts) :
          attempts[j].ok /\ valid_items[attempts[j].i].duration > args.max_clip_duration

====
